---- MODULE Spec2Model ----
(***************************************************************************)
(* OSM-GPX-Uploader.py: upload of the GPX traces of a directory to         *)
(* OpenStreetMap, with duplicate detection on the trace name               *)
(* "YYYYMMDD - hh:mm" embedded in the remote description.                  *)
(*                                                                         *)
(* Python strings are sequences of one-character strings; None is the      *)
(* model value None; a datetime is a record of its fields.                 *)
(***************************************************************************)
EXTENDS Integers, Sequences, FiniteSets, TLC

\* ------------------------------------------------------------------------
\* Bounds
\* ------------------------------------------------------------------------
\* number of entries of the directory that match *.gpx / *.GPX
MaxFiles == 2
\* number of trace records the remote account holds before the first run
MaxRecords == 1
\* number of consecutive runs of main against the same directory
MaxRuns == 2
\* number of time elements of a document given to extract_gpx_timestamp
MaxElems == 2
\* number of records of a response given to get_existing_traces
MaxList == 2

\* ------------------------------------------------------------------------
\* Python values
\* ------------------------------------------------------------------------
\* None, where a datetime or a dict is expected
None == [t |-> "None"]

DigitChars == <<"0", "1", "2", "3", "4", "5", "6", "7", "8", "9">>

\* str.isdigit / regex \d on one character
IsDigit(c) == \E i \in 1..10 : DigitChars[i] = c

\* value of a digit character
DigitVal(c) == (CHOOSE i \in 1..10 : DigitChars[i] = c) - 1

RECURSIVE Pow10(_)
Pow10(w) == IF w = 0 THEN 1 ELSE 10 * Pow10(w - 1)

\* decimal digits of n, zero-padded to width w (%m, %d, %H, %M)
Zfill(n, w) == [i \in 1..w |-> DigitChars[((n \div Pow10(w - i)) % 10) + 1]]

RECURSIVE NumDigits(_)
NumDigits(n) == IF n < 10 THEN 1 ELSE 1 + NumDigits(n \div 10)

\* decimal digits of n without padding
Decimal(n) == Zfill(n, NumDigits(n))

\* code points of the characters the model uses, for str comparison
Ord(c) ==
    CASE c = " " -> 32
      [] c = "+" -> 43
      [] c = "-" -> 45
      [] c = "." -> 46
      [] IsDigit(c) -> 48 + DigitVal(c)
      [] c = ":" -> 58
      [] c = "B" -> 66
      [] c = "G" -> 71
      [] c = "P" -> 80
      [] c = "T" -> 84
      [] c = "X" -> 88
      [] c = "Z" -> 90
      [] c = "a" -> 97
      [] c = "b" -> 98
      [] c = "c" -> 99
      [] c = "g" -> 103
      [] c = "p" -> 112
      [] c = "t" -> 116
      [] c = "x" -> 120
      [] c = "{" -> 123
      [] c = "}" -> 125
      [] OTHER -> 200

\* Python's s < t on strings: lexicographic on code points
RECURSIVE StrLess(_, _)
StrLess(s, t) ==
    IF t = <<>> THEN FALSE
    ELSE IF s = <<>> THEN TRUE
    ELSE IF Ord(Head(s)) # Ord(Head(t)) THEN Ord(Head(s)) < Ord(Head(t))
    ELSE StrLess(Tail(s), Tail(t))

\* s.endswith(suffix)
EndsWith(s, suffix) ==
    /\ Len(s) >= Len(suffix)
    /\ SubSeq(s, Len(s) - Len(suffix) + 1, Len(s)) = suffix

\* s.startswith(prefix)
StartsWith(s, prefix) ==
    /\ Len(s) >= Len(prefix)
    /\ SubSeq(s, 1, Len(prefix)) = prefix

\* c in s
Contains(s, c) == \E i \in 1..Len(s) : s[i] = c

\* s.replace('Z', '+00:00')
RECURSIVE ReplaceZ(_)
ReplaceZ(s) ==
    IF s = <<>> THEN <<>>
    ELSE IF Head(s) = "Z" THEN <<"+", "0", "0", ":", "0", "0">> \o ReplaceZ(Tail(s))
    ELSE <<Head(s)>> \o ReplaceZ(Tail(s))

\* ------------------------------------------------------------------------
\* datetime
\* ------------------------------------------------------------------------
\* a datetime value; tz is the empty string for a naive datetime
DateTime(y, mo, d, h, mi, sec, tz) ==
    [t |-> "datetime", year |-> y, month |-> mo, day |-> d, hour |-> h, minute |-> mi,
     second |-> sec, tz |-> tz]

IsLeap(y) == (y % 4 = 0 /\ y % 100 # 0) \/ y % 400 = 0

DaysInMonth(y, mo) ==
    IF mo = 2 THEN (IF IsLeap(y) THEN 29 ELSE 28)
    ELSE IF mo \in {4, 6, 9, 11} THEN 30 ELSE 31

AllDigits(s, i, w) == \A k \in i..(i + w - 1) : IsDigit(s[k])

RECURSIVE Num(_, _, _)
Num(s, i, w) ==
    IF w = 0 THEN 0 ELSE 10 * Num(s, i, w - 1) + DigitVal(s[i + w - 1])

\* datetime.fromisoformat on the texts of the model: YYYY-MM-DDTHH:MM:SS,
\* optionally followed by +HH:MM or -HH:MM; anything else is a ValueError
fromisoformat(s) ==
    IF /\ Len(s) \in {19, 25}
       /\ AllDigits(s, 1, 4) /\ s[5] = "-" /\ AllDigits(s, 6, 2)
       /\ s[8] = "-" /\ AllDigits(s, 9, 2) /\ s[11] = "T"
       /\ AllDigits(s, 12, 2) /\ s[14] = ":" /\ AllDigits(s, 15, 2)
       /\ s[17] = ":" /\ AllDigits(s, 18, 2)
       /\ Len(s) = 25 =>
            /\ s[20] \in {"+", "-"} /\ AllDigits(s, 21, 2)
            /\ s[23] = ":" /\ AllDigits(s, 24, 2)
            /\ Num(s, 21, 2) <= 23 /\ Num(s, 24, 2) <= 59
       /\ Num(s, 1, 4) >= 1
       /\ Num(s, 6, 2) \in 1..12
       /\ Num(s, 9, 2) \in 1..DaysInMonth(Num(s, 1, 4), Num(s, 6, 2))
       /\ Num(s, 12, 2) <= 23 /\ Num(s, 15, 2) <= 59 /\ Num(s, 18, 2) <= 59
    THEN DateTime(Num(s, 1, 4), Num(s, 6, 2), Num(s, 9, 2), Num(s, 12, 2),
                  Num(s, 15, 2), Num(s, 18, 2),
                  IF Len(s) = 25 THEN SubSeq(s, 20, 25) ELSE <<>>)
    ELSE [t |-> "ValueError"]

\* isoformat text of a naive datetime, used to write the inputs of the model
IsoText(y, mo, d, h, mi, sec) ==
    Zfill(y, 4) \o <<"-">> \o Zfill(mo, 2) \o <<"-">> \o Zfill(d, 2) \o <<"T">>
        \o Zfill(h, 2) \o <<":">> \o Zfill(mi, 2) \o <<":">> \o Zfill(sec, 2)

\* ------------------------------------------------------------------------
\* State
\* ------------------------------------------------------------------------
VARIABLES
    zeroPadYear,      \* the C library's %Y pads years below 1000 with zeros
    directory,        \* sys.argv[1]: "dir", "file" or "missing"
    entries,          \* the directory: entry name -> file
    config_file,      \* osm_config.json
    remote,           \* the account's trace records on the server
    pc,               \* position in main
    run,              \* number of the current run of main
    config,           \* result of load_or_create_config
    gpx_files,        \* list of the globbed paths
    access_token,
    existing_traces,
    uploaded, skipped, errors,
    todo,             \* rest of sorted(gpx_files), head = current gpx_file
    timestamp,
    trace_name,
    read_ok,          \* get_existing_traces returned at its last line
    outcome,          \* this run: file name -> what main printed for it
    posted,           \* this run: files for which upload_gpx was called
    first_run,        \* outcome and read_ok of the previous run
    fn_in, fn_out,    \* argument and result of a function called on its own
    auth_code,        \* the module's global auth_code
    server,           \* the listening socket of the HTTPServer
    backlog,          \* requests that reached the socket, not yet accepted
    server_thread,    \* position of the thread that runs server.handle_request
    handled,          \* requests handed to CallbackHandler.do_GET
    joined            \* how server_thread.join(timeout=120) returned

vars == <<zeroPadYear, directory, entries, config_file, remote, pc, run, config,
          gpx_files, access_token, existing_traces, uploaded, skipped, errors,
          todo, timestamp, trace_name, read_ok, outcome, posted, first_run,
          fn_in, fn_out, auth_code, server, backlog, server_thread, handled,
          joined>>

\* ------------------------------------------------------------------------
\* format_trace_name
\* ------------------------------------------------------------------------
\* %Y of strftime: the year in decimal, four digits wide where the C
\* library pads it
strftime_Y(year) == IF zeroPadYear THEN Zfill(year, 4) ELSE Decimal(year)

\* dt.strftime("%Y%m%d - %H:%M")
format_trace_name(dt) ==
    strftime_Y(dt.year) \o Zfill(dt.month, 2) \o Zfill(dt.day, 2)
        \o <<" ", "-", " ">> \o Zfill(dt.hour, 2) \o <<":">> \o Zfill(dt.minute, 2)

\* ------------------------------------------------------------------------
\* get_existing_traces
\* ------------------------------------------------------------------------
\* the pattern \d{8} - \d{2}:\d{2} matches s at position i
MatchAt(s, i) ==
    /\ i + 15 <= Len(s)
    /\ AllDigits(s, i, 8)
    /\ s[i + 8] = " " /\ s[i + 9] = "-" /\ s[i + 10] = " "
    /\ AllDigits(s, i + 11, 2)
    /\ s[i + 13] = ":"
    /\ AllDigits(s, i + 14, 2)

\* re_search with the whole description as the match
re_search_Whole(desc) ==
    [matched |-> \E i \in 1..Len(desc) : MatchAt(desc, i), group |-> desc]

\* re.search(r'\d{8} - \d{2}:\d{2}', desc): the leftmost match (matched,
\* with match.group()), or no match
re_search(desc) ==
    IF \E i \in 1..Len(desc) : MatchAt(desc, i)
    THEN LET i == CHOOSE k \in 1..Len(desc) :
                    /\ MatchAt(desc, k)
                    /\ \A j \in 1..(k - 1) : ~MatchAt(desc, j)
         IN  [matched |-> TRUE, group |-> SubSeq(desc, i, i + 15)]
    ELSE [matched |-> FALSE, group |-> <<>>]

\* a JSON string
Str(s) == [t |-> "str", s |-> s]
\* a JSON number
IntValue == [t |-> "int", s |-> <<>>]
\* JSON null
Null == [t |-> "null", s |-> <<>>]
\* no such key
Absent == [t |-> "absent", s |-> <<>>]

\* an element of the list of traces: a JSON object with its description
\* member, or a JSON number
TraceDict(description) == [t |-> "dict", description |-> description]
TraceInt == [t |-> "int", description |-> Absent]

\* 'description' in gpx_file raises a TypeError: gpx_file is no container
InRaises(gpx_file) == gpx_file.t # "dict"

\* 'description' in gpx_file and gpx_file['description']
HasDescription(gpx_file) ==
    /\ gpx_file.description.t # "absent"
    /\ gpx_file.description.t # "null"
    /\ ~(gpx_file.description.t = "str" /\ gpx_file.description.s = <<>>)

\* the loop over traces_list: the names collected, and whether an
\* exception ended the loop
RECURSIVE ScanTraces(_, _)
ScanTraces(traces_list, trace_names) ==
    IF traces_list = <<>> THEN [raised |-> FALSE, trace_names |-> trace_names]
    ELSE LET gpx_file == Head(traces_list)
         IN  IF InRaises(gpx_file)
             THEN [raised |-> TRUE, trace_names |-> trace_names]
             ELSE IF ~HasDescription(gpx_file)
             THEN ScanTraces(Tail(traces_list), trace_names)
             ELSE IF gpx_file.description.t # "str"
             THEN [raised |-> TRUE, trace_names |-> trace_names]
             ELSE LET match == re_search(gpx_file.description.s)
                  IN  ScanTraces(Tail(traces_list),
                                 IF match.matched
                                 THEN trace_names \cup {match.group}
                                 ELSE trace_names)

\* the body of the response: not JSON, a JSON value that is no object, or
\* an object with its members 'traces' and 'gpx_files'
NotJson == [t |-> "notjson"]
NotDict == [t |-> "notdict"]
Member(list) == [present |-> TRUE, list |-> list]
NoMember == [present |-> FALSE, list |-> <<>>]
Data(traces, gpx_files_member) ==
    [t |-> "dict", traces |-> traces, gpx_files |-> gpx_files_member]

\* data.get('traces', data.get('gpx_files', []))
TracesList(data) ==
    IF data.traces.present THEN data.traces.list
    ELSE IF data.gpx_files.present THEN data.gpx_files.list
    ELSE <<>>

\* what requests.get does: raises, or returns a status code and a body
Response(net, status_code, data) ==
    [net |-> net, status_code |-> status_code, data |-> data]

\* the response reaches the last line of get_existing_traces
ReadSucceeds(response) ==
    /\ response.net = "ok"
    /\ response.status_code = 200
    /\ response.data.t = "dict"
    /\ ~ScanTraces(TracesList(response.data), {}).raised

\* a call returns a value or raises an exception
Return(value) == [raised |-> FALSE, value |-> value]
Raise(value) == [raised |-> TRUE, value |-> value]

\* the try block of get_existing_traces, given what requests.get does:
\* the set it returns, or the exception with the names collected so far
GetExistingTracesTry(response) ==
    IF response.net # "ok" THEN Raise({})
    ELSE IF response.status_code # 200 THEN Return({})
    ELSE IF response.data.t # "dict" THEN Raise({})
    ELSE LET scan == ScanTraces(TracesList(response.data), {})
         IN  IF scan.raised THEN Raise(scan.trace_names)
             ELSE Return(scan.trace_names)

\* get_existing_traces with the names collected before the exception
get_existing_traces_Partial(response) ==
    Return(GetExistingTracesTry(response).value)

\* get_existing_traces(access_token): except Exception: return set()
get_existing_traces(response) ==
    IF GetExistingTracesTry(response).raised THEN Return({})
    ELSE GetExistingTracesTry(response)

\* ------------------------------------------------------------------------
\* upload_gpx
\* ------------------------------------------------------------------------
\* Description with the trace name after the text of the configuration
Description_NameLast(name, cfg) == cfg.description \o <<" ", "-", " ">> \o name

\* f"{trace_name} - {config['description']}"
Description(name, cfg) == name \o <<" ", "-", " ">> \o cfg.description

\* ------------------------------------------------------------------------
\* extract_gpx_timestamp
\* ------------------------------------------------------------------------
\* 'http://www.topografix.com/GPX/1/1', abbreviated
GPX11 == <<"G", "P", "X", "1", "1">>

\* the tag ElementTree gives an element: {namespace}local
QName(ns_uri, local) ==
    IF ns_uri = <<>> THEN local ELSE <<"{">> \o ns_uri \o <<"}">> \o local

\* s.split(c)[0]
RECURSIVE SplitFirst(_, _)
SplitFirst(s, c) ==
    IF s = <<>> \/ Head(s) = c THEN <<>>
    ELSE <<Head(s)>> \o SplitFirst(Tail(s), c)

\* s.strip(c)
RECURSIVE Strip(_, _)
Strip(s, c) ==
    IF s = <<>> THEN <<>>
    ELSE IF Head(s) = c THEN Strip(Tail(s), c)
    ELSE IF s[Len(s)] = c THEN Strip(SubSeq(s, 1, Len(s) - 1), c)
    ELSE s

\* the namespace bound to the prefix gpx
Namespace(root_tag) ==
    IF ~EndsWith(root_tag, <<"g", "p", "x">>) /\ Contains(root_tag, "}")
    THEN Strip(SplitFirst(root_tag, "}"), "{")
    ELSE GPX11

\* a time element of the document: its namespace, the local name of its
\* parent (of the same namespace) and its text ("" when it has none)
TimeElem(ns_uri, parent, text) == [ns |-> ns_uri, parent |-> parent, text |-> text]

\* root.findall('.//gpx:<parent>/gpx:time', ns), in document order
RECURSIVE FindAll(_, _, _)
FindAll(elems, parent, ns_uri) ==
    IF elems = <<>> THEN <<>>
    ELSE (IF Head(elems).parent = parent /\ Head(elems).ns = ns_uri
          THEN <<Head(elems)>> ELSE <<>>)
         \o FindAll(Tail(elems), parent, ns_uri)

\* the texts of the elements that have one
RECURSIVE Texts(_)
Texts(elems) ==
    IF elems = <<>> THEN <<>>
    ELSE (IF Head(elems).text # <<>> THEN <<Head(elems).text>> ELSE <<>>)
         \o Texts(Tail(elems))

\* the timestamps collected from trkpt, wpt and the first metadata time
Timestamps(content) ==
    LET ns_uri == Namespace(content.root_tag)
        metadata == FindAll(content.elems, "metadata", ns_uri)
    IN  Texts(FindAll(content.elems, "trkpt", ns_uri))
            \o Texts(FindAll(content.elems, "wpt", ns_uri))
            \o (IF metadata # <<>> THEN Texts(<<Head(metadata)>>) ELSE <<>>)

\* SortedFirst without the sort: the first timestamp collected
SortedFirst_Unsorted(timestamps) == Head(timestamps)

\* timestamps.sort(); timestamps[0]
RECURSIVE SortedFirst(_)
SortedFirst(timestamps) ==
    IF Len(timestamps) = 1 THEN Head(timestamps)
    ELSE LET rest == SortedFirst(Tail(timestamps))
         IN  IF StrLess(rest, Head(timestamps)) THEN rest ELSE Head(timestamps)

\* the try block of extract_gpx_timestamp(gpx_file): content.kind is "xml"
\* for a well-formed document, "malformed" when ET.parse raises a
\* ParseError and "oserror" when it cannot read the file
ExtractTry(content) ==
    IF content.kind # "xml" THEN Raise(None)
    ELSE IF Timestamps(content) = <<>> THEN Return(None)
    ELSE LET dt == fromisoformat(ReplaceZ(SortedFirst(Timestamps(content))))
         IN  IF dt.t = "ValueError" THEN Raise(None) ELSE Return(dt)

\* extract_gpx_timestamp without its except clause
extract_gpx_timestamp_NoExcept(content) == ExtractTry(content)

\* extract_gpx_timestamp(gpx_file): except Exception: return None
extract_gpx_timestamp(content) ==
    IF ExtractTry(content).raised THEN Return(None) ELSE ExtractTry(content)

\* a file of the directory: what ET.parse finds, whether stat() and open()
\* work on it, and datetime.fromtimestamp(st_mtime)
File(kind, root_tag, elems, stat_ok, open_ok, mtime) ==
    [kind |-> kind, root_tag |-> root_tag, elems |-> elems,
     stat_ok |-> stat_ok, open_ok |-> open_ok, mtime |-> mtime]

\* ------------------------------------------------------------------------
\* Inputs
\* ------------------------------------------------------------------------
Utc == <<"Z">>
Plus2 == <<"+", "0", "2", ":", "0", "0">>

\* 2023-11-22 14:04 and later seconds of the same and of the next minute
TimeA == IsoText(2023, 11, 22, 14, 4, 0) \o Utc
TimeA59 == IsoText(2023, 11, 22, 14, 4, 59) \o Utc
TimeA90 == IsoText(2023, 11, 22, 14, 5, 30) \o Utc
\* 2024-01-15 10:30 at UTC+2
TimeB == IsoText(2024, 1, 15, 10, 30, 0) \o Plus2
\* a year below 1000
TimeOld == IsoText(999, 1, 2, 3, 4, 0) \o Utc

MtimeA == DateTime(2023, 11, 22, 14, 4, 7, <<>>)
MtimeB == DateTime(2024, 1, 15, 10, 30, 0, <<>>)

GpxTag == QName(GPX11, <<"g", "p", "x">>)

\* track points, the earliest one last
GpxTrk ==
    File("xml", GpxTag,
         <<TimeElem(GPX11, "trkpt", TimeA90), TimeElem(GPX11, "trkpt", TimeA)>>,
         TRUE, TRUE, MtimeB)
\* a waypoint of the minute of GpxTrk, and a later metadata time
GpxWpt ==
    File("xml", GpxTag,
         <<TimeElem(GPX11, "metadata", TimeB), TimeElem(GPX11, "wpt", TimeA59)>>,
         TRUE, TRUE, MtimeB)
\* a track point without time, modified in the minute of GpxTrk
GpxNoTime ==
    File("xml", GpxTag, <<TimeElem(GPX11, "trkpt", <<>>)>>, TRUE, TRUE, MtimeA)
GpxOld ==
    File("xml", GpxTag, <<TimeElem(GPX11, "trkpt", TimeOld)>>, TRUE, TRUE, MtimeB)
\* not XML
Malformed == File("malformed", <<>>, <<>>, TRUE, TRUE, MtimeB)
\* a file that cannot be opened (no permission, or a directory)
Unreadable == File("oserror", <<>>, <<>>, TRUE, FALSE, MtimeA)
\* a symbolic link to nothing
Dangling == File("oserror", <<>>, <<>>, FALSE, FALSE, MtimeA)
\* no such entry
NoFile == File("absent", <<>>, <<>>, FALSE, FALSE, MtimeA)

\* the file a name of the model stands for
FileOf(id) ==
    CASE id = "GpxTrk" -> GpxTrk
      [] id = "GpxWpt" -> GpxWpt
      [] id = "GpxNoTime" -> GpxNoTime
      [] id = "GpxOld" -> GpxOld
      [] id = "Malformed" -> Malformed
      [] id = "Unreadable" -> Unreadable
      [] id = "Dangling" -> Dangling
      [] OTHER -> NoFile

FileIds == {"GpxTrk", "GpxWpt", "GpxNoTime", "GpxOld", "Malformed",
            "Unreadable", "Dangling"}

\* what extract_gpx_timestamp does on each file
Extracted == [id \in FileIds |-> extract_gpx_timestamp(FileOf(id))]

\* the files a directory of the model may hold
DirFiles == {"GpxTrk", "GpxNoTime", "GpxOld", "Unreadable", "Dangling"}

NameA == <<"a", ".", "g", "p", "x">>
NameB == <<"B", ".", "G", "P", "X">>
NameC == <<"c", ".", "g", "p", "x">>
NameTxt == <<"a", ".", "t", "x", "t">>
GpxNames == <<NameA, NameB, NameC>>

\* the names the directory may hold
Names == {GpxNames[i] : i \in 1..MaxFiles} \cup {NameTxt}

\* config['description']: a plain text, and a text that holds a trace name
PlainText == <<"x">>
NameText == Zfill(20240115, 8) \o <<" ", "-", " ">> \o Zfill(10, 2) \o <<":">> \o Zfill(30, 2)
Descriptions == {PlainText, NameText}

\* descriptions of the traces the account holds before the first run
RemoteA == Zfill(20231122, 8) \o <<" ", "-", " ", "1", "4", ":", "0", "4", " ", "x">>
RemoteNone == <<"x", " ", "1", "4", ":", "0", "4">>
RemoteRecords == {TraceDict(Str(RemoteA))}

\* the sequences over S of length at most n
RECURSIVE SeqsUpTo(_, _)
SeqsUpTo(S, n) ==
    IF n = 0 THEN {<<>>}
    ELSE LET shorter == SeqsUpTo(S, n - 1)
         IN  shorter \cup {Append(q, x) : q \in shorter, x \in S}

\* ------------------------------------------------------------------------
\* get_access_token
\* ------------------------------------------------------------------------
\* what get_access_token meets: its argument auth_code ("None" or a code),
\* the token file (whether it exists and whether open() works on it), the
\* answer to the validation request, what get_authorization_code does
\* ("code", or "timeout" with sys.exit(1)), the answer to the token request
\* and its body (with or without 'access_token'), and whether the token
\* file can be written
TokenWorld(code, exists, readable, validation, flow, exchange, body, w) ==
    [auth_code |-> code, exists |-> exists, readable |-> readable,
     validation |-> validation, authorization |-> flow,
     exchange |-> exchange, body |-> body, writable |-> w]

\* what a call of get_access_token did: how it ended ("return", "exit" for
\* sys.exit(1), "raise" for an exception), the token it returned, the
\* requests it made and the token file it leaves
TokenCall(ending, value, validated, authorized, exchanged, token_file) ==
    [outcome |-> ending, value |-> value, validated |-> validated,
     authorized |-> authorized, exchanged |-> exchanged,
     token_file |-> token_file]

\* the content of the token file before the call
TokenFile(world) == IF world.exists THEN "saved_token" ELSE "none"

\* the validation request is made: auth_code is None, the token file
\* exists and can be read
Validates(world) ==
    world.auth_code = "None" /\ world.exists /\ world.readable

\* ReusesSaved without the test of the status code
ReusesSaved_Unchecked(world) == Validates(world)

\* the saved token is returned: the validation request answers 200 (an
\* exception of open() or requests.get is passed over by except: pass)
ReusesSaved(world) ==
    /\ Validates(world)
    /\ world.validation.net = "ok"
    /\ world.validation.status_code = 200

\* get_access_token(client_id, client_secret, auth_code=None)
get_access_token(world) ==
    LET file == TokenFile(world)
        validated == Validates(world)
        authorized == world.auth_code = "None"
    IN  IF ReusesSaved(world)
        THEN TokenCall("return", "saved_token", TRUE, FALSE, FALSE, file)
        ELSE IF authorized /\ world.authorization = "timeout"
        THEN TokenCall("exit", "None", validated, TRUE, FALSE, file)
        ELSE IF world.exchange.net # "ok"
        THEN TokenCall("raise", "None", validated, authorized, TRUE, file)
        ELSE IF world.exchange.status_code # 200
        THEN TokenCall("exit", "None", validated, authorized, TRUE, file)
        ELSE IF world.body # "access_token"
        THEN TokenCall("raise", "None", validated, authorized, TRUE, file)
        ELSE IF ~world.writable
        THEN TokenCall("raise", "None", validated, authorized, TRUE, file)
        ELSE TokenCall("return", "new_token", validated, authorized, TRUE,
                       "new_token")

\* the worlds a call of get_access_token may meet
TokenWorlds ==
    {TokenWorld(code, exists, readable, validation, authorization,
                exchange, body, writable) :
        code \in {"None", "code"},
        exists \in BOOLEAN, readable \in BOOLEAN,
        validation \in {Response("error", 0, NotJson),
                        Response("ok", 200, NotJson),
                        Response("ok", 401, NotJson)},
        authorization \in {"code", "timeout"},
        exchange \in {Response("error", 0, NotJson),
                      Response("ok", 200, NotJson),
                      Response("ok", 400, NotJson)},
        body \in {"access_token", "other"},
        writable \in BOOLEAN}

\* how the call get_access_token(client_id, client_secret) of main may end
TokenOutcomes ==
    {get_access_token(world).outcome :
        world \in {w \in TokenWorlds : w.auth_code = "None"}}

\* ------------------------------------------------------------------------
\* main
\* ------------------------------------------------------------------------
\* Glob without the pattern: every entry of the directory
Glob_AnyName(ext) == {n \in DOMAIN entries : entries[n] # "NoFile"}

\* directory.glob(pattern) for the patterns "*.gpx" and "*.GPX": the names
\* of the entries that end in the extension
Glob(ext) == {n \in DOMAIN entries : entries[n] # "NoFile" /\ EndsWith(n, ext)}

\* the orders in which a listing may yield the names of S
RECURSIVE Orders(_)
Orders(S) ==
    IF S = {} THEN {<<>>}
    ELSE UNION {{<<x>> \o q : q \in Orders(S \ {x})} : x \in S}

\* insertion of a path into a sorted list of paths
RECURSIVE Insert(_, _)
Insert(x, sorted) ==
    IF sorted = <<>> THEN <<x>>
    ELSE IF StrLess(x, Head(sorted)) THEN <<x>> \o sorted
    ELSE <<Head(sorted)>> \o Insert(x, Tail(sorted))

\* Sorted without the sort: the order of the listing
Sorted_Unsorted(files) == files

\* sorted(gpx_files): paths of one directory compare as their names do
RECURSIVE Sorted(_)
Sorted(files) ==
    IF files = <<>> THEN <<>> ELSE Insert(Head(files), Sorted(Tail(files)))

\* the local variables of main before its first statement
Fresh ==
    /\ config = None
    /\ gpx_files = <<>>
    /\ access_token = "None"
    /\ existing_traces = {}
    /\ uploaded = 0 /\ skipped = 0 /\ errors = 0
    /\ todo = <<>>
    /\ timestamp = None
    /\ trace_name = <<>>
    /\ read_ok = FALSE
    /\ outcome = <<>>
    /\ posted = {}

NoRun == [outcome |-> <<>>, read_ok |-> FALSE, pc |-> "none"]
NoCall == [t |-> "nocall"]

\* the program has not run a function on its own
NoCalls == fn_in = NoCall /\ fn_out = NoCall

\* the module before get_authorization_code is called: auth_code = None,
\* no server and no thread
NoHandshake ==
    /\ auth_code = None
    /\ server = "none"
    /\ backlog = <<>>
    /\ server_thread = "none"
    /\ handled = <<>>
    /\ joined = NoCall

Init ==
    /\ directory \in {"dir", "file", "missing"}
    /\ \E files \in [Names \ {NameTxt} -> DirFiles \cup {"NoFile"}] :
        entries = files @@ (NameTxt :> "Malformed")
    \* the padding of %Y shows on years below 1000 only
    /\ zeroPadYear \in IF \E n \in Names : entries[n] = "GpxOld"
                       THEN BOOLEAN ELSE {TRUE}
    /\ config_file = [description |-> PlainText]
    /\ remote \in SeqsUpTo(RemoteRecords, MaxRecords)
    /\ pc = "config"
    /\ run = 1
    /\ Fresh
    /\ first_run = NoRun
    /\ NoCalls
    /\ NoHandshake

env == <<zeroPadYear, directory, entries, config_file>>
fn == <<fn_in, fn_out>>
oauth == <<auth_code, server, backlog, server_thread, handled, joined>>
tally == <<uploaded, skipped, errors>>
history == <<outcome, posted, first_run>>

\* config = load_or_create_config(): the saved configuration, or
\* sys.exit(1) when a new one cannot be saved
LoadConfig ==
    /\ pc = "config"
    /\ \/ config' = config_file /\ pc' = "directory"
       \/ config' = config /\ pc' = "exit"
    /\ UNCHANGED <<env, fn, oauth, tally, history, remote, run, gpx_files, access_token,
                   existing_traces, todo, timestamp, trace_name, read_ok>>

\* the directory of the command line must exist and be a directory
CheckDirectory ==
    /\ pc = "directory"
    /\ pc' = IF directory = "dir" THEN "glob" ELSE "exit"
    /\ UNCHANGED <<env, fn, oauth, tally, history, remote, run, config, gpx_files,
                   access_token, existing_traces, todo, timestamp, trace_name,
                   read_ok>>

\* gpx_files = list(glob("*.gpx")) + list(glob("*.GPX")), and the exit
\* when there is none
FindFiles ==
    /\ pc = "glob"
    /\ \E lower \in Orders(Glob(<<".", "g", "p", "x">>)),
          upper \in Orders(Glob(<<".", "G", "P", "X">>)) :
            /\ gpx_files' = lower \o upper
            /\ pc' = IF lower \o upper = <<>> THEN "exit" ELSE "token"
    /\ UNCHANGED <<env, fn, oauth, tally, history, remote, run, config, access_token,
                   existing_traces, todo, timestamp, trace_name, read_ok>>

\* access_token = get_access_token(...): a token, or the end of the
\* process by sys.exit(1) or by an exception nothing catches
GetAccessToken ==
    /\ pc = "token"
    /\ \E ending \in TokenOutcomes :
        IF ending = "return"
        THEN access_token' = "token" /\ pc' = "inventory"
        ELSE access_token' = access_token /\ pc' = "exit"
    /\ UNCHANGED <<env, fn, oauth, tally, history, remote, run, config, gpx_files,
                   existing_traces, todo, timestamp, trace_name, read_ok>>

\* what requests.get may answer to the request for the list of traces:
\* no answer, an error status, a body that is not the JSON object expected,
\* or the records of the account under one of the two keys
InventoryResponses ==
    {Response("error", 0, NotJson), Response("ok", 403, NotJson),
     Response("ok", 200, NotJson), Response("ok", 200, NotDict),
     Response("ok", 200, Data(Member(remote), NoMember)),
     Response("ok", 200, Data(NoMember, Member(remote)))}

\* existing_traces = get_existing_traces(access_token), the three counters
\* and the start of the loop over sorted(gpx_files)
GetExistingTraces ==
    /\ pc = "inventory"
    /\ \E response \in InventoryResponses :
        \E call \in {get_existing_traces(response)} :
            IF call.raised
            THEN /\ pc' = "crash"
                 /\ UNCHANGED <<existing_traces, read_ok, tally, todo>>
            ELSE /\ existing_traces' = call.value
                 /\ read_ok' = ReadSucceeds(response)
                 /\ uploaded' = 0 /\ skipped' = 0 /\ errors' = 0
                 /\ todo' = Sorted(gpx_files)
                 /\ pc' = "loop"
    /\ UNCHANGED <<env, fn, oauth, history, remote, run, config, gpx_files,
                   access_token, timestamp, trace_name>>

\* timestamp = extract_gpx_timestamp(gpx_file)
ExtractTimestamp ==
    /\ pc = "loop" /\ todo # <<>>
    /\ LET call == Extracted[entries[Head(todo)]]
       IN  IF call.raised
           THEN timestamp' = timestamp /\ pc' = "crash"
           ELSE /\ timestamp' = call.value
                /\ pc' = IF call.value = None THEN "fallback" ELSE "name"
    /\ UNCHANGED <<env, fn, oauth, tally, history, remote, run, config, gpx_files,
                   access_token, existing_traces, todo, trace_name, read_ok>>

\* timestamp = datetime.fromtimestamp(gpx_file.stat().st_mtime); stat()
\* raises FileNotFoundError on a link to nothing, which nothing catches
FallbackMtime ==
    /\ pc = "fallback"
    /\ IF FileOf(entries[Head(todo)]).stat_ok
       THEN timestamp' = FileOf(entries[Head(todo)]).mtime /\ pc' = "name"
       ELSE timestamp' = timestamp /\ pc' = "crash"
    /\ UNCHANGED <<env, fn, oauth, tally, history, remote, run, config, gpx_files,
                   access_token, existing_traces, todo, trace_name, read_ok>>

\* Count without errors += 1
Count_NoErrors(state) ==
    [uploaded |-> IF state = "UPLOADED" THEN uploaded + 1 ELSE uploaded,
     skipped |-> IF state = "SKIPPED" THEN skipped + 1 ELSE skipped,
     errors |-> errors]

\* the three counters after a file ends in the given state:
\* skipped += 1, uploaded += 1 or errors += 1
Count(state) ==
    [uploaded |-> IF state = "UPLOADED" THEN uploaded + 1 ELSE uploaded,
     skipped |-> IF state = "SKIPPED" THEN skipped + 1 ELSE skipped,
     errors |-> IF state = "ERRORED" THEN errors + 1 ELSE errors]

\* what main prints for a file: its trace name and how it ended
Printed(name, state) == [name |-> name, state |-> state]

\* AlreadyUploaded without the test
AlreadyUploaded_Never(name) == FALSE

\* trace_name in existing_traces
AlreadyUploaded(name) == name \in existing_traces

\* trace_name = format_trace_name(timestamp) and the test
\* trace_name in existing_traces, with skipped += 1
CheckExisting ==
    /\ pc = "name"
    /\ trace_name' = format_trace_name(timestamp)
    /\ IF AlreadyUploaded(trace_name')
       THEN /\ uploaded' = Count("SKIPPED").uploaded
            /\ skipped' = Count("SKIPPED").skipped
            /\ errors' = Count("SKIPPED").errors
            /\ outcome' = outcome @@ (Head(todo) :> Printed(trace_name', "SKIPPED"))
            /\ todo' = Tail(todo)
            /\ pc' = "loop"
       ELSE /\ pc' = "upload"
            /\ UNCHANGED <<tally, outcome, todo>>
    /\ UNCHANGED <<env, fn, oauth, posted, first_run, remote, run, config, gpx_files,
                   access_token, existing_traces, timestamp, read_ok>>

\* what happens in upload_gpx: open() raises, requests.post raises, or the
\* server answers with a status code
UploadEvents(content) ==
    IF content.open_ok
    THEN {Response("error", 0, NotJson), Response("ok", 200, NotJson),
          Response("ok", 201, NotJson), Response("ok", 500, NotJson)}
    ELSE {Response("error", 0, NotJson)}

\* the try block of upload_gpx, given what open and requests.post do
UploadTry(response) ==
    IF response.net # "ok" THEN Raise(FALSE)
    ELSE Return(response.status_code \in {200, 201})

\* upload_gpx(access_token, gpx_file, trace_name, config):
\* except Exception: return False
upload_gpx(response) ==
    IF UploadTry(response).raised THEN Return(FALSE) ELSE UploadTry(response)

\* the server stores the trace with its description when it answers 200
\* or 201
RemoteAfter(response, description) ==
    IF response.net = "ok" /\ response.status_code \in {200, 201}
    THEN Append(remote, TraceDict(Str(description)))
    ELSE remote

\* SeenAfter with the name added whatever upload_gpx returned
SeenAfter_Always(ok, name) == existing_traces \cup {name}

\* existing_traces after the call of upload_gpx:
\* existing_traces.add(trace_name) when it returned True
SeenAfter(ok, name) ==
    IF ok THEN existing_traces \cup {name} ELSE existing_traces

\* if upload_gpx(...): uploaded += 1; existing_traces.add(trace_name)
\* else: errors += 1
UploadFile ==
    /\ pc = "upload"
    /\ \E response \in UploadEvents(FileOf(entries[Head(todo)])) :
        /\ remote' = RemoteAfter(response, Description(trace_name, config))
        /\ LET call == upload_gpx(response)
               state == IF call.value THEN "UPLOADED" ELSE "ERRORED"
           IN  IF call.raised
               THEN /\ pc' = "crash"
                    /\ UNCHANGED <<tally, existing_traces, outcome, todo>>
               ELSE /\ uploaded' = Count(state).uploaded
                    /\ skipped' = Count(state).skipped
                    /\ errors' = Count(state).errors
                    /\ existing_traces' = SeenAfter(call.value, trace_name)
                    /\ outcome' = outcome @@ (Head(todo) :> Printed(trace_name, state))
                    /\ todo' = Tail(todo)
                    /\ pc' = "loop"
    /\ posted' = posted \cup {Head(todo)}
    /\ UNCHANGED <<env, fn, oauth, first_run, run, config, gpx_files,
                   access_token, timestamp, trace_name, read_ok>>

\* the end of the loop and the summary
Summary ==
    /\ pc = "loop" /\ todo = <<>>
    /\ pc' = "done"
    /\ UNCHANGED <<env, fn, oauth, tally, history, remote, run, config, gpx_files,
                   access_token, existing_traces, todo, timestamp, trace_name,
                   read_ok>>

\* the user runs the program again on the same directory
RunAgain ==
    /\ pc \in {"done", "crash"}
    /\ run < MaxRuns
    /\ run' = run + 1
    /\ first_run' = [outcome |-> outcome, read_ok |-> read_ok, pc |-> pc]
    /\ pc' = "config"
    /\ config' = None
    /\ gpx_files' = <<>>
    /\ access_token' = "None"
    /\ existing_traces' = {}
    /\ uploaded' = 0 /\ skipped' = 0 /\ errors' = 0
    /\ todo' = <<>>
    /\ timestamp' = None
    /\ trace_name' = <<>>
    /\ read_ok' = FALSE
    /\ outcome' = <<>>
    /\ posted' = {}
    /\ UNCHANGED <<env, fn, oauth, remote>>

Next ==
    \/ LoadConfig
    \/ CheckDirectory
    \/ FindFiles
    \/ GetAccessToken
    \/ GetExistingTraces
    \/ ExtractTimestamp
    \/ FallbackMtime
    \/ CheckExisting
    \/ UploadFile
    \/ Summary
    \/ RunAgain

Spec == Init /\ [][Next]_vars

\* one run of main alone, from its first statement to its exit, its
\* summary or an uncaught exception
NextRun ==
    \/ LoadConfig
    \/ CheckDirectory
    \/ FindFiles
    \/ GetAccessToken
    \/ GetExistingTraces
    \/ ExtractTimestamp
    \/ FallbackMtime
    \/ CheckExisting
    \/ UploadFile
    \/ Summary

SpecRun == Init /\ [][NextRun]_vars

\* ------------------------------------------------------------------------
\* The functions on their own
\* ------------------------------------------------------------------------
\* main is not running
Idle ==
    /\ directory = "dir"
    /\ entries = [n \in Names |-> "NoFile"]
    /\ config_file = [description |-> PlainText]
    /\ remote = <<>>
    /\ run = 1
    /\ Fresh
    /\ first_run = NoRun
    /\ NoHandshake

main_vars == <<zeroPadYear, directory, entries, config_file, remote, run,
               config, gpx_files, access_token, existing_traces, uploaded,
               skipped, errors, todo, timestamp, trace_name, read_ok, outcome,
               posted, first_run>>

\* 'http://www.topografix.com/GPX/1/0', abbreviated
GPX10 == <<"G", "P", "X", "1", "0">>

\* a text that is no ISO 8601 time
TimeBad == <<"x">>

\* white space, which sorts before every time
TimeBlank == <<" ">>

\* root tags: gpx of GPX 1.1, gpx of another namespace, a root of another
\* namespace whose name does not end in gpx, gpx without namespace
RootTags ==
    {GpxTag, QName(GPX10, <<"g", "p", "x">>), QName(GPX10, <<"G", "P", "X">>),
     <<"g", "p", "x">>}

TimeElems ==
    {TimeElem(ns_uri, parent, text) :
        ns_uri \in {GPX11, GPX10},
        parent \in {"trkpt", "wpt", "metadata"},
        text \in {TimeA, TimeB, TimeBad, TimeBlank, <<>>}}

\* the files given to extract_gpx_timestamp
ExtractInputs ==
    {Malformed, Unreadable, Dangling}
        \cup {File("xml", root_tag, elems, TRUE, TRUE, MtimeB) :
                root_tag \in RootTags, elems \in SeqsUpTo(TimeElems, MaxElems)}

InitExtract ==
    /\ Idle
    /\ zeroPadYear = TRUE
    /\ pc = "extract_gpx_timestamp"
    /\ fn_in \in ExtractInputs
    /\ fn_out = NoCall

\* timestamp = extract_gpx_timestamp(gpx_file)
CallExtract ==
    /\ pc = "extract_gpx_timestamp"
    /\ fn_out' = extract_gpx_timestamp(fn_in)
    /\ pc' = "extract_returned"
    /\ UNCHANGED <<main_vars, oauth, fn_in>>

NextExtract == CallExtract

SpecExtract == InitExtract /\ [][NextExtract]_vars

\* a description with a trace name after other text, and a second one
RemoteMid == <<"x">> \o NameText \o <<" ">> \o SubSeq(RemoteA, 1, 16)

ReaderRecords ==
    {TraceDict(Str(RemoteA)), TraceDict(Str(RemoteMid)),
     TraceDict(Str(RemoteNone)), TraceDict(Str(<<>>)), TraceDict(Absent),
     TraceDict(Null), TraceDict(IntValue), TraceInt}

\* the bodies given to get_existing_traces
ReaderBodies ==
    {NotJson, NotDict, Data(NoMember, NoMember)}
        \cup {Data(Member(list), NoMember) : list \in SeqsUpTo(ReaderRecords, MaxList)}
        \cup {Data(NoMember, Member(list)) : list \in SeqsUpTo(ReaderRecords, MaxList)}
        \cup {Data(Member(list), Member(<<TraceDict(Str(NameText))>>)) :
                list \in SeqsUpTo(ReaderRecords, MaxList)}

ReaderInputs ==
    {Response("error", 0, NotJson)}
        \cup {Response("ok", status_code, data) :
                status_code \in {200, 204, 403}, data \in ReaderBodies}

InitReader ==
    /\ Idle
    /\ zeroPadYear = TRUE
    /\ pc = "get_existing_traces"
    /\ fn_in \in ReaderInputs
    /\ fn_out = NoCall

\* existing_traces = get_existing_traces(access_token)
CallReader ==
    /\ pc = "get_existing_traces"
    /\ fn_out' = get_existing_traces(fn_in)
    /\ pc' = "reader_returned"
    /\ UNCHANGED <<main_vars, oauth, fn_in>>

NextReader == CallReader

SpecReader == InitReader /\ [][NextReader]_vars

\* the datetimes and the texts of the configuration of the round trip
RoundTripTimes ==
    {DateTime(y, mo, d, h, mi, 0, <<>>) :
        y \in {999, 2023, 9999}, mo \in {1, 12}, d \in {1, 31},
        h \in {0, 23}, mi \in {0, 59}}

RoundTripDescriptions == {PlainText, NameText, <<>>, <<"1", "2", ":", "3", "4">>}

InitRoundTrip ==
    /\ Idle
    /\ zeroPadYear \in BOOLEAN
    /\ pc = "upload_gpx"
    /\ \E dt \in RoundTripTimes, text \in RoundTripDescriptions :
        fn_in = [trace_name |-> format_trace_name(dt),
                 config |-> [description |-> text]]
    /\ fn_out = NoCall

\* upload_gpx sends the description, and the server stores it
SendDescription ==
    /\ pc = "upload_gpx"
    /\ fn_out' = [description |-> Description(fn_in.trace_name, fn_in.config),
                  traces |-> {}]
    /\ pc' = "stored"
    /\ UNCHANGED <<main_vars, oauth, fn_in>>

\* get_existing_traces reads the record of the trace
ReadBack ==
    /\ pc = "stored"
    /\ fn_out' =
        [fn_out EXCEPT !.traces =
            get_existing_traces(
                Response("ok", 200,
                         Data(Member(<<TraceDict(Str(fn_out.description))>>),
                              NoMember))).value]
    /\ pc' = "read_back"
    /\ UNCHANGED <<main_vars, oauth, fn_in>>

NextRoundTrip == SendDescription \/ ReadBack

SpecRoundTrip == InitRoundTrip /\ [][NextRoundTrip]_vars

\* the datetimes given to format_trace_name: naive and aware, with and
\* without seconds
FormatTimes ==
    {DateTime(y, mo, d, h, mi, sec, tz) :
        y \in {999, 2023, 9999}, mo \in {1, 12}, d \in {1, 9, 31},
        h \in {0, 14, 23}, mi \in {0, 4, 59}, sec \in {0, 59},
        tz \in {<<>>, Utc, Plus2}}

InitFormat ==
    /\ Idle
    /\ zeroPadYear \in BOOLEAN
    /\ pc = "format_trace_name"
    /\ fn_in \in FormatTimes
    /\ fn_out = NoCall

\* trace_name = format_trace_name(timestamp)
CallFormat ==
    /\ pc = "format_trace_name"
    /\ fn_out' = format_trace_name(fn_in)
    /\ pc' = "format_returned"
    /\ UNCHANGED <<main_vars, oauth, fn_in>>

NextFormat == CallFormat

SpecFormat == InitFormat /\ [][NextFormat]_vars

InitToken ==
    /\ Idle
    /\ zeroPadYear = TRUE
    /\ pc = "get_access_token"
    /\ fn_in \in TokenWorlds
    /\ fn_out = NoCall

\* access_token = get_access_token(client_id, client_secret, auth_code)
CallToken ==
    /\ pc = "get_access_token"
    /\ fn_out' = get_access_token(fn_in)
    /\ pc' = "token_returned"
    /\ UNCHANGED <<main_vars, oauth, fn_in>>

NextToken == CallToken

SpecToken == InitToken /\ [][NextToken]_vars

\* what a call of upload_gpx meets: the keys of config, whether open()
\* works on the file, and what requests.post does
UploadWorld(keys, open_ok, response) ==
    [keys |-> keys, open_ok |-> open_ok, response |-> response]

UploadKeys == {"description", "tags", "visibility"}

UploadWorlds ==
    {UploadWorld(keys, open_ok, response) :
        keys \in SUBSET UploadKeys,
        open_ok \in BOOLEAN,
        response \in {Response("error", 0, NotJson)}
            \cup {Response("ok", status_code, NotJson) :
                    status_code \in {200, 201, 202, 204, 301, 400, 404, 500}}}

\* config['description'], open(gpx_file, 'rb'), config['tags'] and
\* config['visibility'] raise before requests.post is called
UploadEvent(world) ==
    IF world.keys = UploadKeys /\ world.open_ok
    THEN world.response
    ELSE Response("error", 0, NotJson)

InitUpload ==
    /\ Idle
    /\ zeroPadYear = TRUE
    /\ pc = "upload_gpx_call"
    /\ fn_in \in UploadWorlds
    /\ fn_out = NoCall

\* upload_gpx(access_token, gpx_file, trace_name, config)
CallUpload ==
    /\ pc = "upload_gpx_call"
    /\ fn_out' = upload_gpx(UploadEvent(fn_in))
    /\ pc' = "upload_returned"
    /\ UNCHANGED <<main_vars, oauth, fn_in>>

NextUpload == CallUpload

SpecUpload == InitUpload /\ [][NextUpload]_vars

\* ------------------------------------------------------------------------
\* get_authorization_code and CallbackHandler
\* ------------------------------------------------------------------------
\* the requests that may reach the listener in one handshake
MaxRequests == 2

\* s.split(c)
RECURSIVE Split(_, _)
Split(s, c) ==
    IF ~Contains(s, c) THEN <<s>>
    ELSE <<SplitFirst(s, c)>>
             \o Split(SubSeq(s, Len(SplitFirst(s, c)) + 2, Len(s)), c)

\* s.replace('+', ' '), as parse_qs decodes a name or a value; the inputs
\* of the model hold no %XX escape
RECURSIVE Unplus(_)
Unplus(s) ==
    IF s = <<>> THEN <<>>
    ELSE <<IF Head(s) = "+" THEN " " ELSE Head(s)>> \o Unplus(Tail(s))

\* the values parse_qs keeps for a name, in the order of the fields: a field
\* is name=value, and a field without '=' or with a blank value is dropped
RECURSIVE FieldValues(_, _)
FieldValues(fields, name) ==
    IF fields = <<>> THEN <<>>
    ELSE LET field == Head(fields)
             key == SplitFirst(field, "=")
             value == SubSeq(field, Len(key) + 2, Len(field))
         IN  (IF Contains(field, "=") /\ value # <<>> /\ Unplus(key) = name
              THEN <<Unplus(value)>> ELSE <<>>)
                 \o FieldValues(Tail(fields), name)

\* query = parse_qs(self.path.split('?')[1] if '?' in self.path else ''),
\* read at the name 'code'
QueryCode(path) ==
    FieldValues(IF Contains(path, "?") THEN Split(Split(path, "?")[2], "&")
                ELSE <<>>,
                <<"c", "o", "d", "e">>)

\* a request the browser, or anything else, sends to 127.0.0.1:8000: its
\* path, and the code it carries (None when it carries none)
Request(path, code) == [path |-> path, code |-> code]

CodeAb == <<"a", "b">>
CodeC == <<"c">>
CodeAB == <<"a", " ", "b">>
PathCb == <<"/", "c", "b">>
CodeIs == <<"c", "o", "d", "e", "=">>

Requests ==
    {Request(PathCb \o <<"?">> \o CodeIs \o CodeAb, Str(CodeAb)),
     Request(PathCb \o <<"?">> \o CodeIs \o CodeC, Str(CodeC)),
     Request(PathCb \o <<"?">> \o CodeIs \o <<"a", "+", "b">>, Str(CodeAB)),
     Request(PathCb \o <<"?", "x", "=", "1", "&">> \o CodeIs \o CodeAb,
             Str(CodeAb)),
     Request(PathCb \o <<"?">> \o CodeIs \o CodeAb \o <<"&">> \o CodeIs \o CodeC,
             Str(CodeAb)),
     Request(PathCb, None),
     Request(PathCb \o <<"?", "e", "r", "r", "o", "r", "=", "x">>, None),
     Request(PathCb \o <<"?">> \o CodeIs, None)}

\* sys.exit(1)
SystemExit == Raise("SystemExit")

InitHandshake ==
    /\ Idle
    /\ zeroPadYear = TRUE
    /\ pc = "get_authorization_code"
    /\ NoCalls

\* a request reaches the listening socket
BrowserRequest ==
    /\ server = "listening"
    /\ Len(backlog) + Len(handled) < MaxRequests
    /\ \E request \in Requests : backlog' = Append(backlog, request)
    /\ UNCHANGED <<main_vars, fn, pc, auth_code, server, server_thread,
                   handled, joined>>

\* server = HTTPServer(('127.0.0.1', 8000), CallbackHandler), which raises
\* OSError when the port is taken, and server_thread.start()
StartListener ==
    /\ pc = "get_authorization_code"
    /\ \/ /\ server' = "listening"
          /\ server_thread' = "handle_request"
          /\ pc' = "open_browser"
          /\ UNCHANGED fn_out
       \/ /\ fn_out' = Raise("OSError")
          /\ pc' = "raised"
          /\ UNCHANGED <<server, server_thread>>
    /\ UNCHANGED <<main_vars, fn_in, auth_code, backlog, handled, joined>>

\* webbrowser.open(auth_url)
OpenBrowser ==
    /\ pc = "open_browser"
    /\ pc' = "join"
    /\ UNCHANGED <<main_vars, fn, oauth>>

\* how join returned, and how many requests had reached the socket by then
Joined(how) == [how |-> how, arrived |-> Len(backlog) + Len(handled)]

\* server_thread.join(timeout=120): returns when the thread has ended, or
\* after 120 seconds with the thread still alive
Join ==
    /\ pc = "join"
    /\ joined' = Joined(IF server_thread = "finished" THEN "finished"
                        ELSE "timeout")
    /\ pc' = "server_close"
    /\ UNCHANGED <<main_vars, fn, auth_code, server, backlog, server_thread,
                   handled>>

\* server.server_close()
ServerClose ==
    /\ pc = "server_close"
    /\ server' = "closed"
    /\ pc' = "check"
    /\ UNCHANGED <<main_vars, fn, auth_code, backlog, server_thread, handled,
                   joined>>

\* if auth_code is None: sys.exit(1); return auth_code
CheckCode ==
    /\ pc = "check"
    /\ IF auth_code = None
       THEN fn_out' = SystemExit /\ pc' = "exited"
       ELSE fn_out' = Return(auth_code) /\ pc' = "returned"
    /\ UNCHANGED <<main_vars, fn_in, oauth>>

\* server.handle_request() in the thread: accepts one request and hands it
\* to CallbackHandler
HandleRequest ==
    /\ server_thread = "handle_request"
    /\ server = "listening"
    /\ backlog # <<>>
    /\ pc # "exited"
    /\ handled' = Append(handled, Head(backlog))
    /\ backlog' = Tail(backlog)
    /\ server_thread' = "do_GET"
    /\ UNCHANGED <<main_vars, fn, pc, auth_code, server, joined>>

\* CallbackHandler.do_GET: if 'code' in query: auth_code = query['code'][0],
\* and the answer 200 or 400; the thread ends
do_GET ==
    /\ server_thread = "do_GET"
    /\ pc # "exited"
    /\ LET code == QueryCode(handled[Len(handled)].path)
       IN  auth_code' = IF code # <<>> THEN Str(Head(code)) ELSE auth_code
    /\ server_thread' = "finished"
    /\ UNCHANGED <<main_vars, fn, pc, server, backlog, handled, joined>>

NextHandshake ==
    \/ BrowserRequest
    \/ StartListener
    \/ OpenBrowser
    \/ Join
    \/ ServerClose
    \/ CheckCode
    \/ HandleRequest
    \/ do_GET

SpecHandshake == InitHandshake /\ [][NextHandshake]_vars

\* ------------------------------------------------------------------------
\* Properties of a run
\* ------------------------------------------------------------------------
\* The properties of one run are stated of SpecRun; C5, which compares a
\* second run with the first, is stated of Spec.
\* the files main printed as ended in the given state
Ended(state) == {f \in DOMAIN outcome : outcome[f].state = state}

\* the files main found
Found == {gpx_files[i] : i \in 1..Len(gpx_files)}

\* C1: once main has processed every file it found, uploaded + skipped +
\* errors is the number of files found, and every file found counts in
\* exactly one of the three
C1_CountsSumToFound ==
    pc = "done" =>
        /\ uploaded + skipped + errors = Len(gpx_files)
        /\ DOMAIN outcome = Found
        /\ uploaded = Cardinality(Ended("UPLOADED"))
        /\ skipped = Cardinality(Ended("SKIPPED"))
        /\ errors = Cardinality(Ended("ERRORED"))

C1_Witness == pc = "done" /\ uploaded = 1 /\ errors = 1

\* C2: a file that reaches the upload is UPLOADED and its trace name joins
\* existing_traces when the server stores it, and is ERRORED with
\* existing_traces unchanged otherwise; once read from the inventory,
\* existing_traces changes at no other step of the run
C2_SeenChangesOnlyOnUpload ==
    [][ /\ pc = "upload" =>
            /\ pc' = "loop"
            /\ IF Len(remote') > Len(remote)
               THEN /\ outcome'[Head(todo)].state = "UPLOADED"
                    /\ existing_traces' = existing_traces \cup {trace_name}
               ELSE /\ outcome'[Head(todo)].state = "ERRORED"
                    /\ existing_traces' = existing_traces
        /\ existing_traces' # existing_traces =>
            \/ pc = "upload"
            \/ pc = "inventory"
            \/ run' # run
      ]_vars

C2_Witness ==
    \E f \in Ended("UPLOADED"), g \in Ended("ERRORED") :
        /\ outcome[f].name \in existing_traces
        /\ outcome[g].name \notin existing_traces

\* C3: a file whose trace name is in existing_traces when it is processed
\* is SKIPPED: skipped grows by one and upload_gpx is not called for it
C3_SeenIsSkipped ==
    [][ /\ (pc = "name" /\ trace_name' \in existing_traces) =>
            /\ pc' = "loop"
            /\ skipped' = skipped + 1
            /\ uploaded' = uploaded /\ errors' = errors
            /\ outcome'[Head(todo)].state = "SKIPPED"
            /\ posted' = posted
            /\ remote' = remote
        /\ \A f \in DOMAIN outcome' :
            outcome'[f].state = "SKIPPED" => f \notin posted'
      ]_vars

C3_Witness ==
    \E f \in Ended("SKIPPED") : f \notin posted /\ skipped = 1 /\ uploaded = 1

\* x has the shape of a trace name: 8 digits, " - ", 2 digits, ":", 2 digits
IsTraceName(x) ==
    /\ Len(x) = 16
    /\ \A i \in (1..8) \cup {12, 13, 15, 16} : IsDigit(x[i])
    /\ x[9] = " " /\ x[10] = "-" /\ x[11] = " "
    /\ x[14] = ":"

\* two files main found and printed in this run, with the same trace name,
\* f sorting before g
Collide(f, g) ==
    /\ outcome[f].name = outcome[g].name
    /\ f \in Found /\ g \in Found
    /\ StrLess(f, g)

\* C4 as stated: of two files with the same trace name, the one that sorts
\* first by name is UPLOADED and the other is SKIPPED, in every run
C4_FirstUploadedSecondSkipped ==
    \A f \in DOMAIN outcome, g \in DOMAIN outcome :
        Collide(f, g) =>
            outcome[f].state = "UPLOADED" /\ outcome[g].state = "SKIPPED"

\* C4 amended: of two files with the same trace name, the second by name
\* is SKIPPED whenever the first is UPLOADED or SKIPPED, so that at most
\* one of them is UPLOADED and never the second after the first
C4_SecondSkippedAfterFirst ==
    \A f \in DOMAIN outcome, g \in DOMAIN outcome :
        (Collide(f, g) /\ outcome[f].state \in {"UPLOADED", "SKIPPED"}) =>
            outcome[g].state = "SKIPPED"

C4_Witness ==
    \E f \in DOMAIN outcome, g \in DOMAIN outcome :
        /\ Collide(f, g)
        /\ outcome[f].state = "UPLOADED"
        /\ outcome[g].state = "SKIPPED"

\* C5: a second run on the same directory, after a first run that read
\* the inventory, met no error and ended with its summary, and with the
\* inventory as the first run left it, uploads nothing
C5_SecondRunUploadsNothing ==
    (/\ run > 1 /\ read_ok
     /\ first_run.pc = "done" /\ first_run.read_ok
     /\ \A f \in DOMAIN first_run.outcome :
            first_run.outcome[f].state # "ERRORED") =>
        uploaded = 0

\* C10 as stated: when extract_gpx_timestamp returned None, main takes the
\* modification time of the file as timestamp and goes on to the trace
\* name, without raising
C10_FallbackNeverRaises ==
    [][ pc = "fallback" =>
            /\ pc' = "name"
            /\ timestamp' = FileOf(entries[Head(todo)]).mtime
      ]_vars

\* C12: a failed upload does not stop the run: once the run is over, every
\* file after an ERRORED file in name order has ended as UPLOADED, SKIPPED
\* or ERRORED
C12_FailedUploadDoesNotStop ==
    pc \in {"done", "crash"} =>
        \A f \in Ended("ERRORED"), g \in Found :
            StrLess(f, g) => g \in DOMAIN outcome

\* C13: the read of the inventory never ends the run; when it fails, the
\* loop starts with an empty existing_traces, and from then on a file is
\* SKIPPED only if a file before it in name order, with the same trace
\* name, was UPLOADED in this run
C13_FailedReadStartsEmpty ==
    [][ /\ pc = "inventory" =>
            /\ pc' = "loop"
            /\ todo' = Sorted(gpx_files)
            /\ ~read_ok' => existing_traces' = {}
        /\ ~read_ok' =>
            \A f \in DOMAIN outcome' :
                outcome'[f].state = "SKIPPED" =>
                    \E g \in DOMAIN outcome' :
                        /\ StrLess(g, f)
                        /\ outcome'[g].state = "UPLOADED"
                        /\ outcome'[g].name = outcome'[f].name
      ]_vars

C13_Witness ==
    /\ pc = "done" /\ run = 1 /\ ~read_ok
    /\ Len(remote) = 2
    /\ \E f \in Ended("UPLOADED"), g \in Ended("SKIPPED") :
        /\ outcome[f].name = SubSeq(RemoteA, 1, 16)
        /\ outcome[g].name = outcome[f].name

\* C14: when get_access_token ends the process, no inventory read and no
\* upload has been made and none follows; and a run ends before its summary
\* only there, or before, at the configuration and the directory
C14_AbortOnlyBeforeReconciliation ==
    [][ /\ (pc = "token" /\ pc' = "exit") =>
            /\ ~read_ok' /\ existing_traces' = {}
            /\ posted' = {} /\ outcome' = <<>>
            /\ remote' = remote
        /\ pc = "exit" => (pc' = "exit" /\ posted' = posted /\ remote' = remote)
        /\ (pc' \in {"exit", "crash"} /\ pc' # pc) =>
            pc \in {"config", "directory", "glob", "token"}
      ]_vars

\* no entry of the directory has a name that ends in .gpx or .GPX
NoGpxFile ==
    \A n \in DOMAIN entries :
        (EndsWith(n, <<".", "g", "p", "x">>) \/ EndsWith(n, <<".", "G", "P", "X">>))
            => entries[n] = "NoFile"

\* C16: main exits when the directory is missing or no directory, and when
\* it holds no GPX file; it has then asked for no token, read no inventory
\* and uploaded nothing, and does nothing after the exit
C16_ExitBeforeAuthentication ==
    [][ /\ (pc = "directory" /\ directory # "dir") => pc' = "exit"
        /\ (pc = "glob" /\ NoGpxFile) => pc' = "exit"
        /\ (pc \in {"directory", "glob"} /\ pc' = "exit") =>
            /\ access_token' = "None"
            /\ ~read_ok' /\ existing_traces' = {}
            /\ posted' = {} /\ outcome' = <<>>
            /\ remote' = remote
        /\ pc = "exit" => UNCHANGED vars
      ]_vars

C16_Witness ==
    /\ pc = "exit"
    /\ directory = "dir" /\ config # None
    /\ NoGpxFile /\ entries[NameTxt] # "NoFile"
    /\ access_token = "None" /\ posted = {}

\* the files found whose name sorts before the name of f
Before(f) == {g \in Found : StrLess(g, f)}

\* C20: the files are processed one at a time in the order of their names:
\* while a file is processed, the files that have ended are exactly those
\* that sort before it, and upload_gpx is called for that file alone and
\* has returned before the next file starts; the inventory is read once in
\* a run, after get_access_token returned and before the first file
C20_SequentialInNameOrder ==
    [][ /\ (pc \in {"loop", "fallback", "name", "upload"} /\ todo # <<>>) =>
            DOMAIN outcome = Before(Head(todo))
        /\ (posted' # posted /\ run' = run) =>
            /\ pc = "upload"
            /\ posted' = posted \cup {Head(todo)}
            /\ Before(Head(todo)) \subseteq DOMAIN outcome
            /\ Head(todo) \in DOMAIN outcome'
            /\ pc' = "loop"
        /\ pc' = "inventory" => (pc = "token" /\ access_token' = "token")
        /\ pc = "inventory" =>
            /\ pc' = "loop"
            /\ access_token = "token"
            /\ outcome = <<>> /\ posted = {}
        /\ (pc' = "done" /\ pc # "done") => DOMAIN outcome = Found
      ]_vars

C20_Witness ==
    /\ pc = "upload"
    /\ Len(gpx_files) = 2 /\ todo = <<gpx_files[1]>>
    /\ DOMAIN outcome = {gpx_files[2]}
    /\ posted = {gpx_files[2]}

\* C21: in one run the trace names of the UPLOADED files are pairwise
\* distinct and none of them was in existing_traces as the inventory gave
\* it: the count starts at 0 with the set read from the inventory, the set
\* only grows, a file is counted as uploaded only with a name that was not in
\* the set and is added to it, and so the size of existing_traces less
\* uploaded stays the size of the set read from the inventory
C21_SeenSizeIsInventoryPlusUploaded ==
    [][ /\ (pc = "inventory" /\ pc' = "loop") => uploaded' = 0
        /\ pc \in {"loop", "fallback", "name", "upload"} =>
            /\ existing_traces \subseteq existing_traces'
            /\ Cardinality(existing_traces') - uploaded' =
                    Cardinality(existing_traces) - uploaded
            /\ uploaded' # uploaded =>
                /\ uploaded' = uploaded + 1
                /\ trace_name \notin existing_traces
                /\ existing_traces' = existing_traces \cup {trace_name}
                /\ outcome'[Head(todo)] = Printed(trace_name, "UPLOADED")
        /\ \A f \in DOMAIN outcome', g \in DOMAIN outcome' :
            (/\ f # g
             /\ outcome'[f].state = "UPLOADED"
             /\ outcome'[g].state = "UPLOADED") =>
                outcome'[f].name # outcome'[g].name
        /\ pc' \in {"loop", "fallback", "name", "upload", "done"} =>
            \A f \in DOMAIN outcome' :
                outcome'[f].state = "UPLOADED" =>
                    outcome'[f].name \in existing_traces'
      ]_vars

C21_Witness ==
    /\ pc = "done" /\ read_ok
    /\ uploaded = 1 /\ skipped = 1
    /\ Cardinality(existing_traces) = 2

\* ------------------------------------------------------------------------
\* Properties of the functions
\* ------------------------------------------------------------------------
\* C6: for every trace name I and every text of the configuration, the
\* description upload_gpx sends starts with I, and get_existing_traces
\* finds exactly I in a record with that description
C6_RoundTrip ==
    (pc = "read_back" /\ IsTraceName(fn_in.trace_name)) =>
        /\ StartsWith(fn_out.description, fn_in.trace_name)
        /\ fn_out.traces = {fn_in.trace_name}

C6_Witness ==
    /\ pc = "read_back"
    /\ IsTraceName(fn_in.trace_name)
    /\ fn_in.config.description = NameText
    /\ fn_out.traces = {fn_in.trace_name}

\* the record is no JSON object, or its description is no string
IllTyped(record) == record.t # "dict" \/ record.description.t = "int"

\* the body is not the JSON object expected, or a list of it holds an
\* ill-typed record
MalformedBody(data) ==
    \/ data.t # "dict"
    \/ \E member \in {data.traces, data.gpx_files} :
        /\ member.present
        /\ \E i \in 1..Len(member.list) : IllTyped(member.list[i])

\* the read fails: no answer, no success status, or a malformed body
ReadFails(response) ==
    \/ response.net # "ok"
    \/ response.status_code \notin 200..299
    \/ MalformedBody(response.data)

\* C7: get_existing_traces never raises, and returns the empty set after a
\* network error, a status that is no success, or a malformed body, also
\* when records before the malformed one held trace names
C7_ReaderNeverRaises ==
    pc = "reader_returned" =>
        /\ ~fn_out.raised
        /\ ReadFails(fn_in) => fn_out.value = {}

C7_Witness ==
    /\ pc = "reader_returned"
    /\ fn_in.net = "ok" /\ fn_in.status_code = 200
    /\ fn_in.data.t = "dict"
    /\ fn_in.data.traces = Member(<<TraceDict(Str(RemoteA)), TraceInt>>)
    /\ fn_out = Return({})

\* the leftmost substrings of the descriptions of the records that have
\* the shape of a trace name
Matches(list) ==
    {SubSeq(list[i].description.s, k, k + 15) :
        <<i, k>> \in
            {<<i, k>> \in (1..Len(list)) \X (1..40) :
                /\ list[i].description.t = "str"
                /\ k + 15 <= Len(list[i].description.s)
                /\ IsTraceName(SubSeq(list[i].description.s, k, k + 15))
                /\ \A j \in 1..(k - 1) :
                    ~IsTraceName(SubSeq(list[i].description.s, j, j + 15))}}

\* C8: after a successful read, get_existing_traces returns exactly the
\* matched substrings of the descriptions of the records, which it takes
\* from the key 'traces' or else from the key 'gpx_files'
C8_ReaderReturnsMatches ==
    (/\ pc = "reader_returned"
     /\ fn_in.net = "ok" /\ fn_in.status_code = 200
     /\ ~MalformedBody(fn_in.data)) =>
        /\ fn_in.data.traces.present =>
            fn_out.value = Matches(fn_in.data.traces.list)
        /\ (~fn_in.data.traces.present /\ fn_in.data.gpx_files.present) =>
            fn_out.value = Matches(fn_in.data.gpx_files.list)
        /\ (~fn_in.data.traces.present /\ ~fn_in.data.gpx_files.present) =>
            fn_out.value = {}

C8_Witness ==
    /\ pc = "reader_returned"
    /\ fn_in.net = "ok" /\ fn_in.status_code = 200
    /\ fn_in.data.t = "dict"
    /\ fn_in.data.traces = NoMember
    /\ fn_in.data.gpx_files =
        Member(<<TraceDict(Str(RemoteMid)), TraceDict(Str(RemoteNone))>>)
    /\ fn_out.value = {NameText}

C11_FixedShape ==
    pc = "format_returned" =>
        fn_out = Zfill(fn_in.year, 4) \o Zfill(fn_in.month, 2)
                    \o Zfill(fn_in.day, 2) \o <<" ", "-", " ">>
                    \o Zfill(fn_in.hour, 2) \o <<":">> \o Zfill(fn_in.minute, 2)

\* C15: upload_gpx never raises; it returns True when the server answers
\* with a 2xx status, and False when it answers with another status, when
\* the request raises, when the file cannot be opened and when config
\* lacks a key
C15_UploadReturnsSuccess ==
    pc = "upload_returned" =>
        /\ ~fn_out.raised
        /\ fn_out.value =
            (/\ fn_in.keys = UploadKeys /\ fn_in.open_ok
             /\ fn_in.response.net = "ok"
             /\ fn_in.response.status_code \in 200..299)

OwnElems(content) ==
    {i \in 1..Len(content.elems) :
        content.elems[i].ns = Strip(SplitFirst(content.root_tag, "}"), "{")}

\* C18: for a document whose root is a gpx element of a namespace other
\* than GPX 1.1, with time elements of that namespace under trkpt, wpt or
\* metadata that all hold a time, extract_gpx_timestamp returns a datetime
C18_CustomNamespace ==
    (/\ pc = "extract_returned"
     /\ fn_in.kind = "xml"
     /\ fn_in.root_tag = QName(GPX10, <<"g", "p", "x">>)
     /\ OwnElems(fn_in) # {}
     /\ \A i \in OwnElems(fn_in) : fn_in.elems[i].text \in {TimeA, TimeB}) =>
        /\ ~fn_out.raised
        /\ fn_out.value # None

\* the texts of the time elements of the namespace of the root under trkpt
\* and wpt, and of the first one under metadata
Collected(content) ==
    {content.elems[i].text :
        i \in {k \in OwnElems(content) :
                /\ content.elems[k].text # <<>>
                /\ content.elems[k].parent = "metadata" =>
                    \A j \in OwnElems(content) :
                        content.elems[j].parent = "metadata" => j >= k}}

\* the smallest of a set of texts in the order of str
Smallest(texts) ==
    CHOOSE m \in texts : \A other \in texts : ~StrLess(other, m)

HandshakeOver == pc \in {"returned", "exited", "raised"}

\* C22: the handshake handles at most one request; get_authorization_code
\* returns a code only if the thread handled a request that carries a code,
\* and returns that code; if the request handled carries no code, or if no
\* request had reached the listener when join timed out, the call ends with
\* auth_code = None and sys.exit(1)
C22_OneCallbackOrExit ==
    /\ Len(handled) <= 1
    /\ pc = "returned" =>
        /\ handled # <<>>
        /\ handled[1].code # None
        /\ fn_out = Return(handled[1].code)
    /\ (HandshakeOver /\ handled # <<>> /\ handled[1].code = None) =>
        auth_code = None /\ pc = "exited"
    /\ (HandshakeOver /\ joined = [how |-> "timeout", arrived |-> 0]) =>
        auth_code = None /\ pc = "exited"

====
